---- MODULE Spec2Model ----
(***************************************************************************)
(* Model of the meals application:                                         *)
(* meals/database/models.py (tables and their constraints),                *)
(* meals/database/repository.py (the repositories of users, recipes,       *)
(* timings and plans), meals/schemas.py (request validation, the           *)
(* ingredient parser) and meals/auth.py with meals/api/v1/routes.py.       *)
(* Every request runs in one transaction (database/session.py, get_db):    *)
(* a request that raises leaves the stored tables as they were.            *)
(***************************************************************************)
EXTENDS Integers, Sequences, FiniteSets, TLC

\* ---------------------------------------------------------------- bounds
MaxIngredients == 2        \* longest requested ingredient list under Spec
MaxSharedIngredients == 2  \* longest requested ingredient list under SpecShared
MaxOwnerIngredients == 1   \* longest requested ingredient list under SpecOwners
MaxAssociationPk == 2      \* largest key of a recipe_ingredients row

UserPks == {1, 2}
UserNames == {"alice", "bob", "carol"}
\* the user names UserPks were registered under
UserNameOf == <<"alice", "bob">>
RecipeNames == {"Pasta", "Sweets"}
IngredientNames == {"Carrot", "Salt"}
Instructions == {"", "Test instructions"}
RecipePks == 1..Cardinality(RecipeNames)

\* (quantity, unit) pairs a requested entry can carry
Amounts == {<<1, "tsp">>, <<2, "units">>}

\* CreateIngredientRequest (schemas.py): the requested entries over some names
\* and amounts
CreateIngredientRequest(names, amounts) ==
    {[name |-> n, quantity |-> a[1], unit |-> a[2]] : n \in names, a \in amounts}

\* the ingredient lists of at most maxlen entries
IngredientLists(entries, maxlen) == UNION {[1..n -> entries] : n \in 0..maxlen}

VARIABLES
    recipes,              \* table recipes: rows [pk, name, instructions, user_pk]
    ingredients,          \* table ingredients: rows [pk, name]
    recipe_ingredients,   \* table recipe_ingredients: rows [pk, recipe_pk, ingredient_pk, quantity, unit]
    last,                 \* the request being served: the repository call, its
                          \* arguments and its outcome; Idle between requests
    users,                \* table users: rows [pk, user_name]
    timings,              \* table timings: rows [pk, finish_time, steps, user_pk]
    planned_days,         \* table planned_days: rows [pk, day, recipe_pk, user_pk]
    data,                 \* the text handed to CreateIngredientRequest.model_validate
    parsed,               \* the outcome of validating data
    sessions,             \* the open sessions of concurrently served requests
    credentials           \* HTTPBasicCredentials.username of the request being
                          \* served; "" between requests

vars == <<recipes, ingredients, recipe_ingredients, last,
          users, timings, planned_days, data, parsed, sessions, credentials>>

\* the ingredient parser's state
parser_vars == <<data, parsed>>

\* no request is being served
Idle == [op |-> "none", user_pk |-> 0, pk |-> 0, name |-> "",
         instructions |-> "", ingredients |-> <<>>, result |-> "none"]

\* ---------------------------------------------------------------- helpers
Max(S) == CHOOSE x \in S : \A y \in S : y <= x
Min(S) == CHOOSE x \in S : \A y \in S : x <= y

\* Integer primary key of a new row: SQLite gives rowid = largest rowid + 1.
NextPk(rows) == IF rows = {} THEN 1 ELSE Max({r.pk : r \in rows}) + 1

\* Result.first(): the first row of a result set (rows come in key order).
First(rows) == CHOOSE r \in rows : \A s \in rows : r.pk <= s.pk

\* the keys of recipe_ingredients stay within the model's range
WithinKeys(assocT) == \A a \in assocT : a.pk <= MaxAssociationPk

\* (variant) recipes.name declared without unique=True
RecipeNameUnique_Absent(rows) == TRUE

\* unique=True on recipes.name
RecipeNameUnique(rows) == \A a, b \in rows : a.name = b.name => a.pk = b.pk

\* (variant) ingredients.name declared without unique=True
IngredientNameUnique_Absent(rows) == TRUE

\* unique=True on ingredients.name
IngredientNameUnique(rows) == \A a, b \in rows : a.name = b.name => a.pk = b.pk

\* RecipeIngredient.ingredient.name, read through a given ingredients table
NameOf(ingT, a) == (CHOOSE g \in ingT : g.pk = a.ingredient_pk).name

\* StoredRecipe.ingredients: the association rows of one recipe
AssocsOf(assocT, pk) == {a \in assocT : a.recipe_pk = pk}

\* the value None of get_ingredient
NoIngredient == [name |-> "", quantity |-> 0, unit |-> ""]

\* UpdateRecipeRequest.get_ingredient: the first entry with the name
get_ingredient(ings, name) ==
    IF \E i \in 1..Len(ings) : ings[i].name = name
    THEN ings[Min({i \in 1..Len(ings) : ings[i].name = name})]
    ELSE NoIngredient

\* (variant) get filters by the key only
get_AnyUser(pk, user_pk) == {r \in recipes : r.pk = pk}

\* RecipeRepository.get: the recipe with the key, owned by the user
get(pk, user_pk) == {r \in recipes : r.pk = pk /\ r.user_pk = user_pk}

\* (variant) create without its duplicate check
ExistingRecipe_Unchecked(name, user_pk) == {}

\* the duplicate check of create: the user's recipes with the name
ExistingRecipe(name, user_pk) == {r \in recipes : r.name = name /\ r.user_pk = user_pk}

\* the stored tables
Stored == [recipes |-> recipes, ingredients |-> ingredients,
           recipe_ingredients |-> recipe_ingredients]

\* session.flush(): the pending rows db are written if the unique constraints
\* admit them; otherwise the flush raises, the transaction is rolled back and
\* the stored tables stay
Flush(db) ==
    IF RecipeNameUnique(db.recipes) /\ IngredientNameUnique(db.ingredients)
    THEN [result |-> "ok", db |-> db]
    ELSE [result |-> "IntegrityError", db |-> Stored]

\* ---------------------------------------------------------------- create
\* (variant) the loop of create adds no association
CreateIngredients_NoAssociations(ings, i, recipe_pk, ingT, assocT) ==
    [ingredients |-> ingT, recipe_ingredients |-> assocT]

\* The loop of create over recipe_data.ingredients from position i on. It
\* runs under session.no_autoflush: the lookup by name reads the stored
\* ingredients table only, a row added earlier in the same request is not
\* found. ingT and assocT are the tables as the flush will write them.
RECURSIVE CreateIngredients(_, _, _, _, _)
CreateIngredients(ings, i, recipe_pk, ingT, assocT) ==
    IF i > Len(ings) THEN [ingredients |-> ingT, recipe_ingredients |-> assocT]
    ELSE LET found == {g \in ingredients : g.name = ings[i].name}
             ingredient == IF found # {} THEN First(found)
                           ELSE [pk |-> NextPk(ingT), name |-> ings[i].name]
             assoc == [pk |-> NextPk(assocT), recipe_pk |-> recipe_pk,
                       ingredient_pk |-> ingredient.pk,
                       quantity |-> ings[i].quantity, unit |-> ings[i].unit]
         IN CreateIngredients(ings, i + 1, recipe_pk,
                              ingT \cup {ingredient}, assocT \cup {assoc})

\* RecipeRepository.create: the outcome and the tables after the call
CreateResult(name, instructions, ings, user_pk) ==
    LET stored_recipe == [pk |-> NextPk(recipes), name |-> name,
                          instructions |-> instructions, user_pk |-> user_pk]
    IN IF ExistingRecipe(name, user_pk) # {}
       THEN [result |-> "RecipeAlreadyExistsError", db |-> Stored]
       ELSE Flush([recipes |-> recipes \cup {stored_recipe}] @@
                  CreateIngredients(ings, 1, stored_recipe.pk, ingredients, recipe_ingredients))

Create(user_pk, name, instructions, ings) ==
    \E r \in {CreateResult(name, instructions, ings, user_pk)} :
    /\ WithinKeys(r.db.recipe_ingredients)
    /\ recipes' = r.db.recipes
    /\ ingredients' = r.db.ingredients
    /\ recipe_ingredients' = r.db.recipe_ingredients
    /\ last' = [op |-> "create", user_pk |-> user_pk, pk |-> 0, name |-> name,
                instructions |-> instructions, ingredients |-> ings,
                result |-> r.result]
    /\ UNCHANGED <<users, timings, planned_days, parser_vars, sessions>>

\* ---------------------------------------------------------------- update
\* the orders in which the loop over the set to_add can visit its names
Orders(S) == {o \in [1..Cardinality(S) -> S] : \A i, j \in 1..Cardinality(S) : o[i] = o[j] => i = j}

\* (variant) the first loop of update leaves quantity and unit as they were
UpdateExisting_Stale(pk, ings) == AssocsOf(recipe_ingredients, pk)

\* (variant) the first loop of update overwrites the associations of the
\* requested identities in every recipe
UpdateExisting_EveryRecipe(pk, ings) ==
    {IF get_ingredient(ings, NameOf(ingredients, a)) # NoIngredient
     THEN [a EXCEPT !.quantity = get_ingredient(ings, NameOf(ingredients, a)).quantity,
                    !.unit = get_ingredient(ings, NameOf(ingredients, a)).unit]
     ELSE a : a \in {b \in recipe_ingredients :
                        \/ b.recipe_pk = pk
                        \/ get_ingredient(ings, NameOf(ingredients, b)) # NoIngredient}}

\* the first loop of update: quantity and unit of every existing association
\* whose name the request carries are overwritten in place
UpdateExisting(pk, ings) ==
    {IF get_ingredient(ings, NameOf(ingredients, a)) # NoIngredient
     THEN [a EXCEPT !.quantity = get_ingredient(ings, NameOf(ingredients, a)).quantity,
                    !.unit = get_ingredient(ings, NameOf(ingredients, a)).unit]
     ELSE a : a \in AssocsOf(recipe_ingredients, pk)}

\* existing_recipe.ingredients = [i for i in ... if name not in to_delete]
DropDeleted(assocs, names) == {a \in assocs : NameOf(ingredients, a) \notin names}

\* (variant) an identity whose only association is dropped is deleted too
IngredientsAfterDelete_Orphans(names) ==
    {g \in ingredients :
        \/ g.name \notin names
        \/ Cardinality({a \in recipe_ingredients : a.ingredient_pk = g.pk}) > 1}

\* the ingredients table after the associations of the names are dropped:
\* only recipe_ingredients rows are deleted (delete-orphan on the relationship)
IngredientsAfterDelete(names) == ingredients

\* the loop of update over to_add, in the order ord; every lookup flushes
\* first, so it reads the rows added earlier in the same request
RECURSIVE AddIngredients(_, _, _, _, _)
AddIngredients(ord, ings, recipe_pk, ingT, assocT) ==
    IF ord = <<>> THEN [ingredients |-> ingT, recipe_ingredients |-> assocT]
    ELSE LET new_i == get_ingredient(ings, Head(ord))
             found == {g \in ingT : g.name = new_i.name}
             ingredient == IF found # {} THEN First(found)
                           ELSE [pk |-> NextPk(ingT), name |-> new_i.name]
             assoc == [pk |-> NextPk(assocT), recipe_pk |-> recipe_pk,
                       ingredient_pk |-> ingredient.pk,
                       quantity |-> new_i.quantity, unit |-> new_i.unit]
         IN AddIngredients(Tail(ord), ings, recipe_pk,
                           ingT \cup {ingredient}, assocT \cup {assoc})

existing_ingredient_names(pk) == {NameOf(ingredients, a) : a \in AssocsOf(recipe_ingredients, pk)}
new_ingredient_names(ings) == {ings[i].name : i \in 1..Len(ings)}

\* (variant) to_delete computed without subtracting the requested names
to_delete_All(pk, ings) == existing_ingredient_names(pk)

to_delete(pk, ings) == existing_ingredient_names(pk) \ new_ingredient_names(ings)
to_add(pk, ings) == new_ingredient_names(ings) \ existing_ingredient_names(pk)

\* RecipeRepository.update: the outcome and the tables after the call, when
\* the loop over to_add visits the names in the order ord
UpdateResult(pk, name, instructions, ings, user_pk, ord) ==
    LET existing_recipe == First(get(pk, user_pk))
        renamed == [existing_recipe EXCEPT !.name = name, !.instructions = instructions]
        kept == DropDeleted(UpdateExisting(pk, ings), to_delete(pk, ings))
        others == recipe_ingredients \ AssocsOf(recipe_ingredients, pk)
    IN IF get(pk, user_pk) = {}
       THEN [result |-> "RecipeDoesNotExistError", db |-> Stored]
       ELSE Flush([recipes |-> (recipes \ {existing_recipe}) \cup {renamed}] @@
                  AddIngredients(ord, ings, pk, IngredientsAfterDelete(to_delete(pk, ings)),
                                 others \cup kept))

Update(user_pk, pk, name, instructions, ings) ==
    \E ord \in Orders(to_add(pk, ings)) :
        \E r \in {UpdateResult(pk, name, instructions, ings, user_pk, ord)} :
        /\ WithinKeys(r.db.recipe_ingredients)
        /\ recipes' = r.db.recipes
        /\ ingredients' = r.db.ingredients
        /\ recipe_ingredients' = r.db.recipe_ingredients
        /\ last' = [op |-> "update", user_pk |-> user_pk, pk |-> pk, name |-> name,
                    instructions |-> instructions, ingredients |-> ings,
                    result |-> r.result]
        /\ UNCHANGED <<users, timings, planned_days, parser_vars, sessions>>

\* get_db: the request ends, its session and transaction are closed and the
\* next request can be served (requests are served one at a time)
EndRequest ==
    /\ last # Idle
    /\ last' = Idle
    /\ credentials' = ""
    /\ UNCHANGED <<recipes, ingredients, recipe_ingredients>>
    /\ UNCHANGED <<users, timings, planned_days, parser_vars, sessions>>

\* ---------------------------------------------------------------- system
\* the text and outcome of the parser before any text is handed to it
NotParsed == [result |-> "none"]

\* the store of the recipe specifications: the users of UserPks are
\* registered, nothing else is stored and no request is open
Init ==
    /\ recipes = {}
    /\ ingredients = {}
    /\ recipe_ingredients = {}
    /\ last = Idle
    /\ users = {[pk |-> u, user_name |-> UserNameOf[u]] : u \in UserPks}
    /\ timings = {}
    /\ planned_days = {}
    /\ data = <<>>
    /\ parsed = NotParsed
    /\ sessions = <<>>
    /\ credentials = ""

\* CreateRecipeRequest's validator: ingredients and instructions are both
\* given or both empty (a request that fails it never reaches the repository)
both_or_neither_ingredients_and_instructions(ings, instructions) ==
    (ings # <<>>) = (instructions # "")

\* a recipe creation request is served (api/v1/routes.py, create_recipe)
CreateRecipe(callers, texts, lists) ==
    /\ last = Idle
    /\ \E u \in callers, n \in RecipeNames, t \in texts, ings \in lists :
           /\ both_or_neither_ingredients_and_instructions(ings, t)
           /\ Create(u, n, t, ings)
    /\ UNCHANGED credentials

\* a recipe update request is served (api/v1/routes.py, update_recipe)
UpdateRecipe(callers, texts, lists) ==
    /\ last = Idle
    /\ \E u \in callers, pk \in RecipePks, n \in RecipeNames, t \in texts, ings \in lists :
           Update(u, pk, n, t, ings)
    /\ UNCHANGED credentials

\* Spec: one user, full ingredient lists (the reconciliation of update)
ReconcileLists == IngredientLists(CreateIngredientRequest(IngredientNames, Amounts), MaxIngredients)

Next ==
    \/ CreateRecipe({1}, {"Test instructions"}, ReconcileLists)
    \/ UpdateRecipe({1}, {"Test instructions"}, ReconcileLists)
    \/ EndRequest

Spec == Init /\ [][Next]_vars

\* SpecShared: two users whose recipes share ingredient identities
SharedLists == IngredientLists(CreateIngredientRequest(IngredientNames, {<<1, "tsp">>}), MaxSharedIngredients)

NextShared ==
    \/ CreateRecipe(UserPks, {"Test instructions"}, SharedLists)
    \/ UpdateRecipe(UserPks, {"Test instructions"}, SharedLists)
    \/ EndRequest

SpecShared == Init /\ [][NextShared]_vars

\* SpecOwners: two users, recipe names and instructions, one ingredient name
OwnerLists == IngredientLists(CreateIngredientRequest({"Carrot"}, {<<1, "tsp">>}), MaxOwnerIngredients)

NextOwners ==
    \/ CreateRecipe(UserPks, Instructions, OwnerLists)
    \/ UpdateRecipe(UserPks, Instructions, OwnerLists)
    \/ EndRequest

SpecOwners == Init /\ [][NextOwners]_vars

\* ---------------------------------------------------------------- properties
\* the names of a requested list are pairwise distinct
DistinctNames(ings) == \A i, j \in 1..Len(ings) : ings[i].name = ings[j].name => i = j

\* a call that changed no table
TablesUnchanged ==
    /\ recipes' = recipes
    /\ ingredients' = ingredients
    /\ recipe_ingredients' = recipe_ingredients

\* C1: after a successful update whose requested names are pairwise distinct,
\* the recipe's associations carry exactly the requested set of names, and each
\* association has the quantity and unit of the requested entry with its name.
C1_UpdateCarriesRequested ==
    [][(last'.op = "update" /\ last'.result = "ok" /\ DistinctNames(last'.ingredients)) =>
        LET ings == last'.ingredients
            after == AssocsOf(recipe_ingredients', last'.pk)
        IN /\ {NameOf(ingredients', a) : a \in after} = {ings[i].name : i \in 1..Len(ings)}
           /\ \A a \in after : \E i \in 1..Len(ings) :
                  /\ ings[i].name = NameOf(ingredients', a)
                  /\ ings[i].quantity = a.quantity
                  /\ ings[i].unit = a.unit]_vars

\* C1 witness: an update with two distinct requested names has succeeded and
\* the recipe holds an association for each of them
C1_Witness ==
    /\ last.op = "update" /\ last.result = "ok"
    /\ Len(last.ingredients) = 2 /\ DistinctNames(last.ingredients)
    /\ Cardinality(AssocsOf(recipe_ingredients, last.pk)) = 2

\* C2: a successful update keeps, for every name both in the recipe and in the
\* request, the same association row (same key, same recipe, same ingredient
\* identity) and the same identity row; only quantity and unit are overwritten.
C2_KeptInPlace ==
    [][(last'.op = "update" /\ last'.result = "ok") =>
        \A a \in AssocsOf(recipe_ingredients, last'.pk) :
            LET n == NameOf(ingredients, a)
                ings == last'.ingredients
                first == CHOOSE i \in 1..Len(ings) :
                             /\ ings[i].name = n
                             /\ \A j \in 1..Len(ings) : ings[j].name = n => i <= j
            IN (\E i \in 1..Len(ings) : ings[i].name = n) =>
                   /\ [a EXCEPT !.quantity = ings[first].quantity,
                                !.unit = ings[first].unit] \in recipe_ingredients'
                   /\ [pk |-> a.ingredient_pk, name |-> n] \in ingredients'
                   /\ Cardinality({b \in recipe_ingredients' : b.pk = a.pk}) = 1]_vars

\* C2 witness: a successful update re-quantified a name the recipe already
\* held, and the association kept its key below the key of a later row of
\* another recipe (a recreated row would have taken a key above it)
C2_Witness ==
    /\ last.op = "update" /\ last.result = "ok"
    /\ Len(last.ingredients) = 1 /\ last.ingredients[1].quantity = 2
    /\ \E a \in AssocsOf(recipe_ingredients, last.pk) :
           /\ NameOf(ingredients, a) = last.ingredients[1].name
           /\ a.quantity = 2
           /\ \E b \in recipe_ingredients : b.recipe_pk # last.pk /\ b.pk > a.pk

\* C3: no step removes an ingredient identity; an identity stays stored even
\* when no association references it.
C3_IdentitiesNeverShrink == [][ingredients \subseteq ingredients']_vars

\* C3 witness: after a successful update an identity is stored that no
\* association references
C3_Witness ==
    /\ last.op = "update" /\ last.result = "ok"
    /\ \E g \in ingredients : \A a \in recipe_ingredients : a.ingredient_pk # g.pk

\* C4: storage holds at most one ingredient identity per name, and every
\* association is attached to a stored identity.
C4_OneIdentityPerName ==
    /\ \A g, h \in ingredients : g.name = h.name => g = h
    /\ \A a \in recipe_ingredients : \E g \in ingredients : g.pk = a.ingredient_pk

\* C4 witness: recipes of two different users are attached to the same identity
C4_Witness ==
    \E a, b \in recipe_ingredients : \E r, q \in recipes :
        /\ r.pk = a.recipe_pk /\ q.pk = b.recipe_pk
        /\ r.user_pk # q.user_pk
        /\ a.ingredient_pk = b.ingredient_pk

\* the requested list ings lists exactly the associations of the recipe pk:
\* one entry per association, with its name, quantity and unit
ListsCurrentAssociations(ings, pk) ==
    LET assocs == AssocsOf(recipe_ingredients, pk) IN
    /\ Len(ings) = Cardinality(assocs)
    /\ \E f \in [1..Len(ings) -> assocs] :
           /\ \A i, j \in 1..Len(ings) : f[i] = f[j] => i = j
           /\ \A i \in 1..Len(ings) :
                  /\ ings[i].name = NameOf(ingredients, f[i])
                  /\ ings[i].quantity = f[i].quantity
                  /\ ings[i].unit = f[i].unit

\* C5 (as claimed): an update that requests the recipe's current name,
\* instructions and ingredient list leaves every table unchanged.
C5_Idempotent ==
    [][(/\ last'.op = "update" /\ last'.result = "ok"
        /\ \E r \in recipes : /\ r.pk = last'.pk /\ r.user_pk = last'.user_pk
                              /\ r.name = last'.name
                              /\ r.instructions = last'.instructions
        /\ ListsCurrentAssociations(last'.ingredients, last'.pk))
       => TablesUnchanged]_vars

\* C6: an update whose key names no recipe of the calling user raises
\* RecipeDoesNotExistError and changes no table.
C6_UpdateMissingRejected ==
    [][(last'.op = "update"
        /\ ~\E r \in recipes : r.pk = last'.pk /\ r.user_pk = last'.user_pk)
       => (last'.result = "RecipeDoesNotExistError" /\ TablesUnchanged)]_vars

\* C6 witness: an update was rejected although another user owns the recipe
C6_Witness ==
    /\ last.op = "update" /\ last.result = "RecipeDoesNotExistError"
    /\ \E r \in recipes : r.pk = last.pk /\ r.user_pk # last.user_pk

\* C7: a create of a name the calling user already owns raises
\* RecipeAlreadyExistsError and changes no table.
C7_DuplicateCreateRejected ==
    [][(last'.op = "create"
        /\ \E r \in recipes : r.name = last'.name /\ r.user_pk = last'.user_pk)
       => (last'.result = "RecipeAlreadyExistsError" /\ TablesUnchanged)]_vars

\* C7 witness: a create was rejected whose request carried other instructions
\* and an ingredient name that has no identity
C7_Witness ==
    /\ last.op = "create" /\ last.result = "RecipeAlreadyExistsError"
    /\ \E r \in recipes : /\ r.name = last.name /\ r.user_pk = last.user_pk
                          /\ r.instructions # last.instructions
    /\ \E i \in 1..Len(last.ingredients) :
           \A g \in ingredients : g.name # last.ingredients[i].name

\* C8 (as claimed): a create of a name that only another user owns succeeds and
\* stores the calling user's own recipe of that name.
C8_NameScopedToOwner ==
    [][(/\ last'.op = "create" /\ DistinctNames(last'.ingredients)
        /\ ~\E r \in recipes : r.name = last'.name /\ r.user_pk = last'.user_pk
        /\ \E r \in recipes : r.name = last'.name /\ r.user_pk # last'.user_pk)
       => /\ last'.result = "ok"
          /\ \E r \in recipes' : r.name = last'.name /\ r.user_pk = last'.user_pk]_vars

\* C9: no user owns two recipes with the same name.
C9_NameUniquePerUser ==
    \A r, q \in recipes : (r.user_pk = q.user_pk /\ r.name = q.name) => r = q

\* C9 witness: an update that would have given a user's recipe the name of
\* another recipe of the same user was refused by the store
C9_Witness ==
    /\ last.op = "update" /\ last.result = "IntegrityError"
    /\ \E r, q \in recipes :
           /\ r.pk = last.pk /\ r.user_pk = last.user_pk /\ r.name # last.name
           /\ q.user_pk = last.user_pk /\ q.name = last.name

\* C10 (as claimed): the associations of a recipe reference pairwise distinct
\* ingredient identities.
C10_DistinctIngredientsPerRecipe ==
    \A a, b \in recipe_ingredients :
        (a.recipe_pk = b.recipe_pk /\ a.ingredient_pk = b.ingredient_pk) => a = b

\* the call of this step passes the checks of the recipe table: a create of a
\* name no recipe carries, or an update of a recipe of the caller to a name no
\* other recipe carries
RecipeNameFree ==
    \/ /\ last'.op = "create"
       /\ \A r \in recipes : r.name # last'.name
    \/ /\ last'.op = "update"
       /\ \E r \in recipes : r.pk = last'.pk /\ r.user_pk = last'.user_pk
       /\ \A r \in recipes : r.name = last'.name => r.pk = last'.pk

\* C11 (as claimed): a create or update whose recipe name is free succeeds;
\* for every requested name exactly one identity is stored afterwards, it is
\* the identity stored before whenever there was one, and the recipe holds an
\* association to it; identities are added only for names that had none.
C11_LazyThenReused ==
    [][RecipeNameFree =>
        LET ings == last'.ingredients
            names == {ings[i].name : i \in 1..Len(ings)}
        IN /\ last'.result = "ok"
           /\ \A n \in names :
                  /\ Cardinality({g \in ingredients' : g.name = n}) = 1
                  /\ \A g \in ingredients : g.name = n => g \in ingredients'
                  /\ \E r \in recipes' : \E a \in AssocsOf(recipe_ingredients', r.pk) :
                         /\ r.name = last'.name
                         /\ NameOf(ingredients', a) = n
           /\ Cardinality(ingredients') = Cardinality(ingredients)
                  + Cardinality({n \in names : \A g \in ingredients : g.name # n})]_vars

\* ---------------------------------------------------------------- parser
MaxLineLen == 4            \* longest text handed to the ingredient parser

\* the characters of a text: a letter, a space, two digits, the decimal point
\* and a character of neither class of INGREDIENT_REGEX
Chars == {"a", " ", "1", "2", ".", "-"}
Lines == UNION {[1..n -> Chars] : n \in 0..MaxLineLen}

\* the character classes [a-zA-Z ] and [\d.] of INGREDIENT_REGEX
IsNameChar(c) == c \in {"a", "e", " "}
IsQuantityChar(c) == c \in {"0", "1", "2", "3", "4", "5", "6", "7", "8", "9", "."}

\* the end of the longest run of characters of one class that starts at i
\* (i - 1 when the character at i is not of the class): a greedy X+
NameRunEnd(s, i) ==
    Max({j \in (i - 1)..Len(s) : \A k \in i..j : IsNameChar(s[k])})
QuantityRunEnd(s, i) ==
    Max({j \in (i - 1)..Len(s) : \A k \in i..j : IsQuantityChar(s[k])})

\* the value None of a regex match
NoMatch == <<>>

\* INGREDIENT_REGEX matched at position i: three greedy groups; the classes
\* are disjoint, so giving back characters of a group never yields a match
\* and the groups are the three maximal runs
MatchAt(s, i) ==
    LET e1 == NameRunEnd(s, i)
        e2 == QuantityRunEnd(s, e1 + 1)
        e3 == NameRunEnd(s, e2 + 1)
    IN IF e1 >= i /\ e2 > e1 /\ e3 > e2
       THEN <<SubSeq(s, i, e1), SubSeq(s, e1 + 1, e2), SubSeq(s, e2 + 1, e3)>>
       ELSE NoMatch

\* INGREDIENT_REGEX.search: the match at the leftmost position that has one
search(s) ==
    IF \E i \in 1..Len(s) : MatchAt(s, i) # NoMatch
    THEN MatchAt(s, Min({i \in 1..Len(s) : MatchAt(s, i) # NoMatch}))
    ELSE NoMatch

\* str.strip() of a text of letters and spaces
RECURSIVE lstrip(_)
lstrip(s) == IF s # <<>> /\ Head(s) = " " THEN lstrip(Tail(s)) ELSE s
RECURSIVE rstrip(_)
rstrip(s) == IF s # <<>> /\ s[Len(s)] = " " THEN rstrip(SubSeq(s, 1, Len(s) - 1)) ELSE s
strip(s) == rstrip(lstrip(s))

\* the decimal digits in order
DigitChars == <<"0", "1", "2", "3", "4", "5", "6", "7", "8", "9">>

DigitValue(c) == (CHOOSE d \in 1..10 : DigitChars[d] = c) - 1

\* the integer written by a text of digits
RECURSIVE IntOf(_)
IntOf(s) == IF s = <<>> THEN 0 ELSE 10 * IntOf(SubSeq(s, 1, Len(s) - 1)) + DigitValue(s[Len(s)])

\* the value None of a failed conversion
NotANumber == <<>>

\* the float field quantity validated from a text of digits and points: a
\* number when the text has one point at most and a digit, written here as
\* <<digits as an integer, count of digits after the point>>
FloatOf(s) ==
    LET points == {i \in 1..Len(s) : s[i] = "."}
        digits == SelectSeq(s, LAMBDA c : c # ".")
    IN IF Cardinality(points) > 1 \/ digits = <<>> THEN NotANumber
       ELSE <<IntOf(digits), IF points = {} THEN 0 ELSE Len(s) - Max(points)>>

\* CreateIngredientRequest.model_validate of a text: from_string splits it and
\* the fields are validated (name and unit are any str, quantity a float)
model_validate(s) ==
    LET match == search(s) IN
    IF match = NoMatch \/ FloatOf(match[2]) = NotANumber
    THEN [result |-> "ValidationError"]
    ELSE [result |-> "ok", name |-> strip(match[1]),
          quantity |-> FloatOf(match[2]), unit |-> strip(match[3])]

\* a text is validated as an ingredient
ParseIngredient ==
    /\ parsed = NotParsed
    /\ parsed' = model_validate(data)
    /\ UNCHANGED <<recipes, ingredients, recipe_ingredients, last,
                   users, timings, planned_days, data, sessions, credentials>>

\* SpecParser: the parser applied to every text of at most MaxLineLen characters
InitParser ==
    /\ recipes = {} /\ ingredients = {} /\ recipe_ingredients = {}
    /\ users = {} /\ timings = {} /\ planned_days = {}
    /\ last = Idle
    /\ sessions = <<>>
    /\ credentials = ""
    /\ data \in Lines
    /\ parsed = NotParsed

NextParser == ParseIngredient

SpecParser == InitParser /\ [][NextParser]_vars

\* the first maximal run of digits and points of a text: its first and last
\* position (<<0, 0>> when the text has none)
FirstNumericRun(s) ==
    IF \E i \in 1..Len(s) : IsQuantityChar(s[i])
    THEN LET i == Min({k \in 1..Len(s) : IsQuantityChar(s[k])})
         IN <<i, QuantityRunEnd(s, i)>>
    ELSE <<0, 0>>

\* C12 (as claimed): an accepted text yields as name the trimmed text before
\* its first maximal run of digits and points, as unit the trimmed text after
\* that run and as quantity the number that run writes.
C12_SplitsAtFirstNumericRun ==
    parsed.result = "ok" =>
        LET run == FirstNumericRun(data) IN
        /\ parsed.name = strip(SubSeq(data, 1, run[1] - 1))
        /\ parsed.unit = strip(SubSeq(data, run[2] + 1, Len(data)))
        /\ parsed.quantity = FloatOf(SubSeq(data, run[1], run[2]))

\* C13 (as claimed): a text with no numeric run, or whose part before or after
\* its first numeric run is empty after trimming, or whose numeric run writes
\* no number, is rejected; no accepted ingredient has an empty name or unit.
C13_RejectsIncomplete ==
    parsed # NotParsed =>
        LET run == FirstNumericRun(data) IN
        /\ (\/ run = <<0, 0>>
            \/ strip(SubSeq(data, 1, run[1] - 1)) = <<>>
            \/ strip(SubSeq(data, run[2] + 1, Len(data))) = <<>>
            \/ FloatOf(SubSeq(data, run[1], run[2])) = NotANumber)
           => parsed.result = "ValidationError"
        /\ parsed.result = "ok" => (parsed.name # <<>> /\ parsed.unit # <<>>)

\* C14 (as claimed): every stored recipe with empty instructions has no
\* ingredient association.
C14_EmptyInstructionsEmptyList ==
    \A r \in recipes : r.instructions = "" => AssocsOf(recipe_ingredients, r.pk) = {}

\* ---------------------------------------------------------------- concurrent creation
MaxConcurrentIngredients == 1   \* longest ingredient list of a concurrent request

\* the requests served at the same time, each with its own session
Requests == {1, 2}

ConcurrentLists ==
    IngredientLists(CreateIngredientRequest(IngredientNames, {<<1, "tsp">>}), MaxConcurrentIngredients)

\* no rows written
NoRows == [recipes |-> {}, ingredients |-> {}, recipe_ingredients |-> {}]

\* a session whose request has not arrived yet
NewSession == [pc |-> "request", user_pk |-> 0, name |-> "", instructions |-> "",
               ingredients |-> <<>>, found |-> <<>>, written |-> NoRows,
               result |-> "none"]

\* the rows create has pending when it flushes: found[i] is the key the lookup
\* of entry i returned (0 when it returned no row and an identity was added)
RECURSIVE SessionIngredients(_, _, _, _, _, _)
SessionIngredients(ings, found, i, recipe_pk, ingT, assocT) ==
    IF i > Len(ings) THEN [ingredients |-> ingT, recipe_ingredients |-> assocT]
    ELSE LET ingredient == IF found[i] # 0
                           THEN CHOOSE g \in ingredients : g.pk = found[i]
                           ELSE [pk |-> NextPk(ingT), name |-> ings[i].name]
             assoc == [pk |-> NextPk(assocT), recipe_pk |-> recipe_pk,
                       ingredient_pk |-> ingredient.pk,
                       quantity |-> ings[i].quantity, unit |-> ings[i].unit]
         IN SessionIngredients(ings, found, i + 1, recipe_pk,
                               ingT \cup {ingredient}, assocT \cup {assoc})

\* a creation request arrives and create runs its duplicate check against the
\* committed rows
StartCreate(s) ==
    /\ sessions[s].pc = "request"
    /\ \E u \in UserPks, n \in RecipeNames, ings \in ConcurrentLists :
         \E t \in {IF ings = <<>> THEN "" ELSE "Test instructions"} :
           sessions' = [sessions EXCEPT ![s] =
               IF ExistingRecipe(n, u) # {}
               THEN [NewSession EXCEPT !.pc = "done", !.user_pk = u, !.name = n,
                                       !.instructions = t, !.ingredients = ings,
                                       !.result = "RecipeAlreadyExistsError"]
               ELSE [NewSession EXCEPT !.pc = "create", !.user_pk = u, !.name = n,
                                       !.instructions = t, !.ingredients = ings]]
    /\ UNCHANGED <<recipes, ingredients, recipe_ingredients, last,
                   users, timings, planned_days, parser_vars, credentials>>

\* one pass of the loop of create: the lookup of the next entry's name reads
\* the committed identities (no_autoflush: not the session's pending ones)
LookupIngredient(s) ==
    LET ses == sessions[s]
        i == Len(ses.found) + 1
        rows == {g \in ingredients : g.name = ses.ingredients[i].name}
    IN /\ ses.pc = "create"
       /\ i <= Len(ses.ingredients)
       /\ sessions' = [sessions EXCEPT ![s].found =
              Append(ses.found, IF rows # {} THEN First(rows).pk ELSE 0)]
       /\ UNCHANGED <<recipes, ingredients, recipe_ingredients, last,
                      users, timings, planned_days, parser_vars, credentials>>

\* another session has written rows it has not committed: it holds the
\* database's write lock
WriteLocked(s) == \E o \in Requests \ {s} : sessions[o].pc = "commit"

\* session.flush() of create: the pending rows are inserted under the write
\* lock when the unique constraints admit them, else the flush raises and the
\* transaction is rolled back
FlushSession(s) ==
    LET ses == sessions[s]
        stored_recipe == [pk |-> NextPk(recipes), name |-> ses.name,
                          instructions |-> ses.instructions, user_pk |-> ses.user_pk]
    IN /\ ses.pc = "create"
       /\ Len(ses.found) = Len(ses.ingredients)
       /\ ~WriteLocked(s)
       /\ \E r \in {Flush([recipes |-> recipes \cup {stored_recipe}] @@
                          SessionIngredients(ses.ingredients, ses.found, 1, stored_recipe.pk,
                                             ingredients, recipe_ingredients))} :
            sessions' = [sessions EXCEPT ![s] =
                IF r.result = "ok"
                THEN [ses EXCEPT !.pc = "commit", !.written = r.db]
                ELSE [ses EXCEPT !.pc = "done", !.result = r.result]]
       /\ UNCHANGED <<recipes, ingredients, recipe_ingredients, last,
                      users, timings, planned_days, parser_vars, credentials>>

\* session.flush() while another session holds the write lock: the flush
\* waits (this step is not taken) or gives up with "database is locked"
FlushBusy(s) ==
    /\ sessions[s].pc = "create"
    /\ Len(sessions[s].found) = Len(sessions[s].ingredients)
    /\ WriteLocked(s)
    /\ sessions' = [sessions EXCEPT ![s].pc = "done", ![s].result = "OperationalError"]
    /\ UNCHANGED <<recipes, ingredients, recipe_ingredients, last,
                   users, timings, planned_days, parser_vars, credentials>>

\* get_db leaves session.begin(): the transaction commits
CommitSession(s) ==
    /\ sessions[s].pc = "commit"
    /\ recipes' = sessions[s].written.recipes
    /\ ingredients' = sessions[s].written.ingredients
    /\ recipe_ingredients' = sessions[s].written.recipe_ingredients
    /\ sessions' = [sessions EXCEPT ![s].pc = "done", ![s].result = "ok"]
    /\ UNCHANGED <<last, users, timings, planned_days, parser_vars, credentials>>

\* SpecConcurrent: two creation requests served at the same time
InitConcurrent ==
    /\ recipes = {} /\ ingredients = {} /\ recipe_ingredients = {}
    /\ users = {[pk |-> u, user_name |-> UserNameOf[u]] : u \in UserPks}
    /\ timings = {} /\ planned_days = {}
    /\ last = Idle
    /\ data = <<>> /\ parsed = NotParsed
    /\ sessions = [s \in Requests |-> NewSession]
    /\ credentials = ""

NextConcurrent ==
    \E s \in Requests :
        \/ StartCreate(s)
        \/ LookupIngredient(s)
        \/ FlushSession(s)
        \/ FlushBusy(s)
        \/ CommitSession(s)

SpecConcurrent == InitConcurrent /\ [][NextConcurrent]_vars

\* the lookup of a session found no identity for the name and added one
Introduces(s, n) ==
    \E i \in 1..Len(sessions[s].found) :
        sessions[s].ingredients[i].name = n /\ sessions[s].found[i] = 0

\* the stored recipe r is the record the request of session s asked for
RecordOf(s, r) ==
    /\ r.name = sessions[s].name
    /\ r.user_pk = sessions[s].user_pk
    /\ r.instructions = sessions[s].instructions
    /\ Cardinality(AssocsOf(recipe_ingredients, r.pk)) = Len(sessions[s].ingredients)
    /\ \A a \in AssocsOf(recipe_ingredients, r.pk) :
           \E i \in 1..Len(sessions[s].ingredients) :
               NameOf(ingredients, a) = sessions[s].ingredients[i].name

\* C15: under every interleaving of two concurrent creation requests the store
\* holds at most one recipe and one identity per name; when both requests
\* target one recipe name or both add an identity for one ingredient name, at
\* most one of them succeeds and the other ends with an error; every stored
\* recipe is the unchanged record of a request that succeeded.
C15_ConcurrentCreateOneWinner ==
    /\ \A r, q \in recipes : r.name = q.name => r = q
    /\ \A g, h \in ingredients : g.name = h.name => g = h
    /\ (\A s \in Requests : sessions[s].pc = "done") =>
          /\ \A s, o \in Requests :
                (/\ s # o
                 /\ \/ sessions[s].name = sessions[o].name
                    \/ \E n \in IngredientNames : Introduces(s, n) /\ Introduces(o, n))
                => \E w \in {s, o} : \E l \in {s, o} \ {w} :
                       sessions[l].result \in {"RecipeAlreadyExistsError",
                                               "IntegrityError", "OperationalError"}
          /\ \A r \in recipes : \E s \in Requests :
                sessions[s].result = "ok" /\ RecordOf(s, r)
          /\ \A s \in Requests :
                sessions[s].result = "ok" => \E r \in recipes : RecordOf(s, r)

\* C15 witness: two requests for different recipes both looked a name up before
\* either committed and both added an identity for it; one committed and the
\* flush of the other was refused
C15_Witness ==
    /\ \A s \in Requests : sessions[s].pc = "done"
    /\ \E s, o \in Requests :
          /\ s # o
          /\ sessions[s].name # sessions[o].name
          /\ \E n \in IngredientNames : Introduces(s, n) /\ Introduces(o, n)
          /\ sessions[s].result = "ok"
          /\ sessions[o].result = "IntegrityError"

\* ---------------------------------------------------------------- timings
MaxSteps == 1              \* longest list of steps of a timings request

FinishTimes == {"18:00:00", "19:30:00"}

\* RecipeStep (schemas.py): a description and an offset that is at most 0
RecipeStep == {[description |-> d, offset |-> o] : d \in {"Roast"}, o \in {-10, 0}}

\* TimingSteps: the lists of steps of at most MaxSteps entries
TimingSteps == UNION {[1..n -> RecipeStep] : n \in 0..MaxSteps}

\* the JSON text of one step
StepJson(st) ==
    "{\"description\":\"" \o st.description \o "\",\"offset\":" \o ToString(st.offset) \o "}"

RECURSIVE StepsJson(_)
StepsJson(steps) ==
    IF steps = <<>> THEN ""
    ELSE IF Len(steps) = 1 THEN StepJson(steps[1])
    ELSE StepJson(Head(steps)) \o "," \o StepsJson(Tail(steps))

\* TimingSteps.model_dump_json(): the text stored in the column steps
model_dump_json(steps) == "[" \o StepsJson(steps) \o "]"

\* (variant) the lookup by user finds nothing
ExistingTimings_None(user_pk) == {}

\* select(StoredTimings).filter_by(user_pk=user_pk)
ExistingTimings(user_pk) == {t \in timings : t.user_pk = user_pk}

\* TimingsRepository.create
TimingsCreate(user_pk, finish_time, steps) ==
    /\ IF ExistingTimings(user_pk) # {}
       THEN /\ timings' = timings
            /\ last' = [op |-> "create_timings", user_pk |-> user_pk,
                        finish_time |-> finish_time, steps |-> steps,
                        result |-> "TimingAlreadyExistsError"]
       ELSE /\ timings' = timings \cup
                   {[pk |-> NextPk(timings), finish_time |-> finish_time,
                     steps |-> model_dump_json(steps), user_pk |-> user_pk]}
            /\ last' = [op |-> "create_timings", user_pk |-> user_pk,
                        finish_time |-> finish_time, steps |-> steps,
                        result |-> "ok"]
    /\ UNCHANGED <<recipes, ingredients, recipe_ingredients,
                   users, planned_days, parser_vars, sessions>>

\* TimingsRepository.update
TimingsUpdate(user_pk, finish_time, steps) ==
    /\ IF ExistingTimings(user_pk) = {}
       THEN timings' = timings \cup
                {[pk |-> NextPk(timings), finish_time |-> finish_time,
                  steps |-> model_dump_json(steps), user_pk |-> user_pk]}
       ELSE LET timing == First(ExistingTimings(user_pk))
            IN timings' = (timings \ {timing}) \cup
                   {[timing EXCEPT !.finish_time = finish_time,
                                   !.steps = model_dump_json(steps)]}
    /\ last' = [op |-> "update_timings", user_pk |-> user_pk,
                finish_time |-> finish_time, steps |-> steps, result |-> "ok"]
    /\ UNCHANGED <<recipes, ingredients, recipe_ingredients,
                   users, planned_days, parser_vars, sessions>>

\* a request to create timings is served (api/v1/routes.py, create_timings)
CreateTimings ==
    /\ last = Idle
    /\ \E u \in UserPks, ft \in FinishTimes, steps \in TimingSteps :
           TimingsCreate(u, ft, steps)
    /\ UNCHANGED credentials

\* a request to update timings is served (api/v1/routes.py, update_timings)
UpdateTimings ==
    /\ last = Idle
    /\ \E u \in UserPks, ft \in FinishTimes, steps \in TimingSteps :
           TimingsUpdate(u, ft, steps)
    /\ UNCHANGED credentials

\* SpecTimings: the timings of two users
NextTimings ==
    \/ CreateTimings
    \/ UpdateTimings
    \/ EndRequest

SpecTimings == Init /\ [][NextTimings]_vars

\* C16: each user has at most one timings record; create is refused with
\* TimingAlreadyExistsError and changes nothing when the user has one and
\* stores one otherwise; update stores a record when the user has none and
\* otherwise overwrites finish_time and steps of the user's record in place.
C16_OneTimingsPerUser ==
    [][/\ \A t, v \in timings' : t.user_pk = v.user_pk => t = v
       /\ last'.op \in {"create_timings", "update_timings"} =>
            LET mine == {t \in timings : t.user_pk = last'.user_pk}
                asked == [finish_time |-> last'.finish_time,
                          steps |-> model_dump_json(last'.steps),
                          user_pk |-> last'.user_pk]
            IN /\ {t \in timings' : t.user_pk # last'.user_pk}
                      = {t \in timings : t.user_pk # last'.user_pk}
               /\ (last'.op = "create_timings" /\ mine # {}) =>
                      (last'.result = "TimingAlreadyExistsError" /\ timings' = timings)
               /\ mine = {} =>
                      /\ last'.result = "ok"
                      /\ \E pk \in 1..Cardinality(UserPks) :
                             /\ \A t \in timings : t.pk # pk
                             /\ timings' = timings \cup {asked @@ [pk |-> pk]}
               /\ (last'.op = "update_timings" /\ mine # {}) =>
                      /\ last'.result = "ok"
                      /\ \E t \in mine :
                             timings' = (timings \ mine) \cup {asked @@ [pk |-> t.pk]}]_vars

\* C16 witness: an update overwrote the record of a user who had one: the
\* user's record is older than the other user's, and carries the requested
\* finish time and steps of the update
C16_Witness ==
    /\ last.op = "update_timings" /\ last.result = "ok"
    /\ last.steps # <<>>
    /\ \E t, v \in timings :
          /\ t.user_pk = last.user_pk /\ v.user_pk # last.user_pk
          /\ t.pk < v.pk
          /\ t.finish_time = last.finish_time
          /\ t.steps = model_dump_json(last.steps)

\* ---------------------------------------------------------------- users
\* (variant) the lookup by user name finds nothing
UserByName_None(user_name) == {}

\* select(User).filter_by(user_name=user_name)
UserByName(user_name) == {u \in users : u.user_name = user_name}

\* unique=True on users.user_name
UserNameUnique(rows) == \A a, b \in rows : a.user_name = b.user_name => a.pk = b.pk

\* UserRepository.create behind the route create_user, which needs no
\* current user
UsersCreate(user_name) ==
    LET user == [pk |-> NextPk(users), user_name |-> user_name]
        outcome == IF UserByName(user_name) # {} THEN "UserAlreadyExistsError"
                   ELSE IF ~UserNameUnique(users \cup {user}) THEN "IntegrityError"
                   ELSE "ok"
    IN /\ users' = IF outcome = "ok" THEN users \cup {user} ELSE users
       /\ last' = [op |-> "create_user", user_name |-> user_name, result |-> outcome]
       /\ UNCHANGED <<recipes, ingredients, recipe_ingredients, timings,
                      planned_days, parser_vars, sessions, credentials>>

\* a request to register a user is served (api/v1/routes.py, create_user)
CreateUser ==
    /\ last = Idle
    /\ \E n \in UserNames : UsersCreate(n)

\* ---------------------------------------------------------------- plans
\* the dates that can be planned, numbered in calendar order
Days == {1, 2}

\* unique=True on planned_days.day
DayUnique(rows) == \A a, b \in rows : a.day = b.day => a.pk = b.pk

\* select(StoredPlannedDay).filter_by(day=..., user_pk=...).limit(1)
PlannedOn(day, user_pk) == {p \in planned_days : p.day = day /\ p.user_pk = user_pk}

\* PlanRepository.update: the row of (day, user) is looked up, added when
\* absent, given the requested recipe and flushed
PlanUpdate(user_pk, day, recipe_pk) ==
    LET planned == IF PlannedOn(day, user_pk) = {}
                   THEN [pk |-> NextPk(planned_days), day |-> day,
                         recipe_pk |-> recipe_pk, user_pk |-> user_pk]
                   ELSE [First(PlannedOn(day, user_pk)) EXCEPT !.recipe_pk = recipe_pk]
        rows == {p \in planned_days : p.pk # planned.pk} \cup {planned}
    IN /\ IF DayUnique(rows)
          THEN /\ planned_days' = rows
               /\ last' = [op |-> "update_planned_day", user_pk |-> user_pk, day |-> day,
                           recipe_pk |-> recipe_pk, pk |-> planned.pk, result |-> "ok"]
          ELSE /\ planned_days' = planned_days
               /\ last' = [op |-> "update_planned_day", user_pk |-> user_pk, day |-> day,
                           recipe_pk |-> recipe_pk, pk |-> 0, result |-> "IntegrityError"]
       /\ UNCHANGED <<recipes, ingredients, recipe_ingredients, users, timings,
                      parser_vars, sessions>>

\* a request to plan a day is served (api/v1/routes.py, update_planned_day)
UpdatePlannedDay ==
    /\ last = Idle
    /\ \E u \in UserPks, d \in Days, r \in RecipePks : PlanUpdate(u, d, r)
    /\ UNCHANGED credentials

\* SpecPlan: the plans of two users
NextPlan ==
    \/ UpdatePlannedDay
    \/ EndRequest

SpecPlan == Init /\ [][NextPlan]_vars

\* C20 (as claimed): planning a day the user has not planned succeeds and adds
\* one plan record with the requested recipe; planning a day the user has
\* planned succeeds, keeps the record's key and replaces only its recipe; a
\* user has at most one plan per day.
C20_PlanUpsertPerUserDay ==
    [][last'.op = "update_planned_day" =>
        LET mine == {p \in planned_days : p.day = last'.day /\ p.user_pk = last'.user_pk}
        IN /\ last'.result = "ok"
           /\ mine = {} =>
                 \E p \in planned_days' \ planned_days :
                     /\ planned_days' = planned_days \cup {p}
                     /\ p.day = last'.day /\ p.user_pk = last'.user_pk
                     /\ p.recipe_pk = last'.recipe_pk
           /\ mine # {} =>
                 \E p \in mine :
                     planned_days' = (planned_days \ {p}) \cup
                                     {[p EXCEPT !.recipe_pk = last'.recipe_pk]}
           /\ \A p, q \in planned_days' :
                 (p.day = q.day /\ p.user_pk = q.user_pk) => p = q]_vars

\* ---------------------------------------------------------------- recipe lookups
\* the characters of the recipe names
Letters == [Pasta |-> <<"P", "a", "s", "t", "a">>,
            Sweets |-> <<"S", "w", "e", "e", "t", "s">>]

\* the snippets a caller searches for
Snippets == {<<"s">>, <<"S", "W">>, <<"t", "a">>}

\* the lower-case form of a character
Lower(c) == CASE c = "P" -> "p" [] c = "S" -> "s" [] c = "W" -> "w" [] OTHER -> c

\* name ILIKE '%snippet%': the snippet occurs in the name, whatever the case
ilike(name, snippet) ==
    \E k \in 0..(Len(Letters[name]) - Len(snippet)) :
        \A i \in 1..Len(snippet) : Lower(Letters[name][k + i]) = Lower(snippet[i])

\* RecipeRepository.get_by_name: the first of the caller's recipes of the name
get_by_name(name, user_pk) ==
    LET rows == {r \in recipes : r.name = name /\ r.user_pk = user_pk}
    IN IF rows = {} THEN {} ELSE {First(rows)}

\* the code points of the characters of the recipe names
CharCode(c) ==
    CASE c = "P" -> 80 [] c = "S" -> 83 [] c = "W" -> 87 [] c = "a" -> 97
      [] c = "e" -> 101 [] c = "s" -> 115 [] c = "t" -> 116 [] c = "w" -> 119

\* the comparison of ORDER BY on a text column: character by character, a
\* proper prefix first
RECURSIVE TextBefore(_, _)
TextBefore(a, b) ==
    IF b = <<>> THEN FALSE
    ELSE IF a = <<>> THEN TRUE
    ELSE IF Head(a) # Head(b) THEN CharCode(Head(a)) < CharCode(Head(b))
    ELSE TextBefore(Tail(a), Tail(b))

\* (variant) the rows in the order of their keys
RECURSIVE OrderByName_ByKey(_)
OrderByName_ByKey(rows) ==
    IF rows = {} THEN <<>>
    ELSE <<First(rows)>> \o OrderByName_ByKey(rows \ {First(rows)})

\* order_by(StoredRecipe.name): the rows as a list, smallest name first
RECURSIVE OrderByName(_)
OrderByName(rows) ==
    IF rows = {} THEN <<>>
    ELSE LET r == CHOOSE x \in rows :
                      \A y \in rows \ {x} : TextBefore(Letters[x.name], Letters[y.name])
         IN <<r>> \o OrderByName(rows \ {r})

\* RecipeRepository.get_all: the caller's recipes in the order of their
\* names, those without ingredients left out on request
get_all(user_pk, has_ingredients) ==
    SelectSeq(OrderByName({r \in recipes : r.user_pk = user_pk}),
              LAMBDA r : has_ingredients => AssocsOf(recipe_ingredients, r.pk) # {})

\* (variant) is_like filters by the snippet only
is_like_AnyUser(snippet, user_pk) == {r \in recipes : ilike(r.name, snippet)}

\* RecipeRepository.is_like: the caller's recipes whose name holds the snippet
is_like(snippet, user_pk) ==
    {r \in recipes : ilike(r.name, snippet) /\ r.user_pk = user_pk}

\* a lookup returns rows and changes no table
Returned(op, user_pk, pk, name, rows, result) ==
    /\ last' = [op |-> op, user_pk |-> user_pk, pk |-> pk, name |-> name,
                rows |-> rows, result |-> result]
    /\ UNCHANGED <<recipes, ingredients, recipe_ingredients, users, timings,
                   planned_days, parser_vars, sessions>>

\* api/v1/routes.py, get_recipe_by_key: 404 when get returns None
RecipeByKey(user_pk, pk) ==
    Returned("get", user_pk, pk, "", get(pk, user_pk),
             IF get(pk, user_pk) = {} THEN "404" ELSE "ok")

\* api/v1/routes.py, get_recipe: 404 when get_by_name returns None
RecipeByName(user_pk, name) ==
    Returned("get_by_name", user_pk, 0, name, get_by_name(name, user_pk),
             IF get_by_name(name, user_pk) = {} THEN "404" ELSE "ok")

\* api/v1/routes.py, get_recipes: rows holds the recipes of the returned list
RecipesOf(user_pk, has_ingredients) ==
    /\ last' = [op |-> "get_all", user_pk |-> user_pk, pk |-> 0, name |-> "",
                has_ingredients |-> has_ingredients,
                list |-> get_all(user_pk, has_ingredients),
                rows |-> {get_all(user_pk, has_ingredients)[i] :
                              i \in 1..Len(get_all(user_pk, has_ingredients))},
                result |-> "ok"]
    /\ UNCHANGED <<recipes, ingredients, recipe_ingredients, users, timings,
                   planned_days, parser_vars, sessions>>

\* api/v1/routes.py, get_recipe_like
RecipesLike(user_pk, snippet) ==
    Returned("is_like", user_pk, 0, snippet, is_like(snippet, user_pk), "ok")

GetRecipeByKey ==
    /\ last = Idle
    /\ \E u \in UserPks, pk \in RecipePks : RecipeByKey(u, pk)
    /\ UNCHANGED credentials

GetRecipe ==
    /\ last = Idle
    /\ \E u \in UserPks, n \in RecipeNames : RecipeByName(u, n)
    /\ UNCHANGED credentials

GetRecipes ==
    /\ last = Idle
    /\ \E u \in UserPks, h \in BOOLEAN : RecipesOf(u, h)
    /\ UNCHANGED credentials

GetRecipeLike ==
    /\ last = Idle
    /\ \E u \in UserPks, sn \in Snippets : RecipesLike(u, sn)
    /\ UNCHANGED credentials

\* SpecIsolation: two users create, update and look up recipes
NextIsolation ==
    \/ CreateRecipe(UserPks, Instructions, OwnerLists)
    \/ UpdateRecipe(UserPks, Instructions, OwnerLists)
    \/ GetRecipeByKey
    \/ GetRecipe
    \/ GetRecipes
    \/ GetRecipeLike
    \/ EndRequest

SpecIsolation == Init /\ [][NextIsolation]_vars

\* C18: a lookup by key, by name, by list or by snippet returns stored recipes
\* of the caller only, a lookup by key of another user's recipe is reported
\* as not found, and an update leaves the recipes of every other user, and
\* their associations, as they were.
C18_RecipesIsolatedPerUser ==
    [][/\ last'.op \in {"get", "get_by_name", "get_all", "is_like"} =>
            /\ last'.rows \subseteq recipes
            /\ \A r \in last'.rows : r.user_pk = last'.user_pk
       /\ (/\ last'.op = "get"
           /\ \E r \in recipes : r.pk = last'.pk /\ r.user_pk # last'.user_pk)
          => (last'.result = "404" /\ last'.rows = {})
       /\ last'.op = "update" =>
            \A r \in recipes : r.user_pk # last'.user_pk =>
                /\ r \in recipes'
                /\ AssocsOf(recipe_ingredients', r.pk) = AssocsOf(recipe_ingredients, r.pk)]_vars

\* C18 witness: a search by snippet returned the caller's recipe while a
\* recipe of another user matches the snippet too
C18_Witness ==
    /\ last.op = "is_like"
    /\ last.rows # {}
    /\ \E r \in recipes : r.user_pk # last.user_pk /\ ilike(r.name, last.name)

\* ---------------------------------------------------------------- API
\* TimingsRepository.get behind the route get_timings: 404 when there is none
TimingsOf(user_pk) ==
    /\ last' = [op |-> "get_timings", user_pk |-> user_pk,
                rows |-> IF ExistingTimings(user_pk) = {} THEN {}
                         ELSE {First(ExistingTimings(user_pk))},
                result |-> IF ExistingTimings(user_pk) = {} THEN "404" ELSE "ok"]
    /\ UNCHANGED <<recipes, ingredients, recipe_ingredients, users, timings,
                   planned_days, parser_vars, sessions>>

\* PlanRepository.get_range: the caller's plans between two dates
get_range(start_date, end_date, user_pk) ==
    {p \in planned_days : /\ start_date <= p.day /\ p.day <= end_date
                          /\ p.user_pk = user_pk}

\* PlanRepository.summarise: for each recipe name of the caller, the count of
\* the planned days joined to it and the latest of them (0 for None)
summarise(user_pk) ==
    {[name |-> r.name,
      count |-> Cardinality({p \in planned_days : p.recipe_pk = r.pk}),
      last_eaten |-> IF {p \in planned_days : p.recipe_pk = r.pk} = {} THEN 0
                     ELSE Max({p.day : p \in {q \in planned_days : q.recipe_pk = r.pk}})]
        : r \in {q \in recipes : q.user_pk = user_pk}}

\* api/v1/routes.py, get_plans
PlansOf(user_pk, start_date, end_date) ==
    /\ last' = [op |-> "get_range", user_pk |-> user_pk,
                rows |-> get_range(start_date, end_date, user_pk), result |-> "ok"]
    /\ UNCHANGED <<recipes, ingredients, recipe_ingredients, users, timings,
                   planned_days, parser_vars, sessions>>

\* api/v1/routes.py, plan_summary
PlanSummary(user_pk) ==
    /\ last' = [op |-> "summarise", user_pk |-> user_pk,
                rows |-> summarise(user_pk), result |-> "ok"]
    /\ UNCHANGED <<recipes, ingredients, recipe_ingredients, users, timings,
                   planned_days, parser_vars, sessions>>

\* api/v1/routes.py, read_users_me
UsersMe(user_pk) ==
    /\ last' = [op |-> "read_users_me", user_pk |-> user_pk,
                rows |-> {u \in users : u.pk = user_pk}, result |-> "ok"]
    /\ UNCHANGED <<recipes, ingredients, recipe_ingredients, users, timings,
                   planned_days, parser_vars, sessions>>

\* (variant) the lookup of the current user ignores the user name
get_current_user_AnyUser(user_name) == IF users = {} THEN {} ELSE {First(users)}

\* auth.py, get_current_user: the registered user of the name, if any
get_current_user(user_name) == UserByName(user_name)

\* the request is refused with 401 before its route runs
Unauthorized ==
    /\ last' = [op |-> "unauthorized", result |-> "401"]
    /\ UNCHANGED <<recipes, ingredients, recipe_ingredients, users, timings,
                   planned_days, parser_vars, sessions>>

\* CurrentUser: the key of the registered user of the credentials
CurrentUserPk(user_name) == First(get_current_user(user_name)).pk

\* The routes below depend on CurrentUser: the credentials are resolved first,
\* then the route runs for the user's key.
\* api/v1/routes.py, read_users_me
ApiReadUsersMe ==
    /\ last = Idle
    /\ \E user_name \in UserNames :
          /\ credentials' = user_name
          /\ IF get_current_user(user_name) = {} THEN Unauthorized
             ELSE UsersMe(CurrentUserPk(user_name))

\* api/v1/routes.py, create_recipe
ApiCreateRecipe ==
    /\ last = Idle
    /\ \E user_name \in UserNames :
          /\ credentials' = user_name
          /\ IF get_current_user(user_name) = {} THEN Unauthorized
             ELSE Create(CurrentUserPk(user_name), "Pasta", "Test instructions",
                         <<[name |-> "Carrot", quantity |-> 1, unit |-> "tsp"]>>)

\* api/v1/routes.py, update_recipe
ApiUpdateRecipe ==
    /\ last = Idle
    /\ \E user_name \in UserNames :
          /\ credentials' = user_name
          /\ IF get_current_user(user_name) = {} THEN Unauthorized
             ELSE \E pk \in RecipePks :
                      Update(CurrentUserPk(user_name), pk, "Pasta", "Test instructions", <<>>)

\* api/v1/routes.py, get_recipes
ApiGetRecipes ==
    /\ last = Idle
    /\ \E user_name \in UserNames :
          /\ credentials' = user_name
          /\ IF get_current_user(user_name) = {} THEN Unauthorized
             ELSE RecipesOf(CurrentUserPk(user_name), FALSE)

\* api/v1/routes.py, get_recipe_by_key
ApiGetRecipeByKey ==
    /\ last = Idle
    /\ \E user_name \in UserNames :
          /\ credentials' = user_name
          /\ IF get_current_user(user_name) = {} THEN Unauthorized
             ELSE RecipeByKey(CurrentUserPk(user_name), 1)

\* api/v1/routes.py, get_recipe
ApiGetRecipe ==
    /\ last = Idle
    /\ \E user_name \in UserNames :
          /\ credentials' = user_name
          /\ IF get_current_user(user_name) = {} THEN Unauthorized
             ELSE RecipeByName(CurrentUserPk(user_name), "Pasta")

\* api/v1/routes.py, get_recipe_like
ApiGetRecipeLike ==
    /\ last = Idle
    /\ \E user_name \in UserNames :
          /\ credentials' = user_name
          /\ IF get_current_user(user_name) = {} THEN Unauthorized
             ELSE RecipesLike(CurrentUserPk(user_name), <<"s">>)

\* api/v1/routes.py, create_timings
ApiCreateTimings ==
    /\ last = Idle
    /\ \E user_name \in UserNames :
          /\ credentials' = user_name
          /\ IF get_current_user(user_name) = {} THEN Unauthorized
             ELSE TimingsCreate(CurrentUserPk(user_name), "18:00:00", <<>>)

\* api/v1/routes.py, update_timings
ApiUpdateTimings ==
    /\ last = Idle
    /\ \E user_name \in UserNames :
          /\ credentials' = user_name
          /\ IF get_current_user(user_name) = {} THEN Unauthorized
             ELSE TimingsUpdate(CurrentUserPk(user_name), "18:00:00", <<>>)

\* api/v1/routes.py, get_timings
ApiGetTimings ==
    /\ last = Idle
    /\ \E user_name \in UserNames :
          /\ credentials' = user_name
          /\ IF get_current_user(user_name) = {} THEN Unauthorized
             ELSE TimingsOf(CurrentUserPk(user_name))

\* api/v1/routes.py, update_planned_day
ApiUpdatePlannedDay ==
    /\ last = Idle
    /\ \E user_name \in UserNames :
          /\ credentials' = user_name
          /\ IF get_current_user(user_name) = {} THEN Unauthorized
             ELSE PlanUpdate(CurrentUserPk(user_name), 1, 1)

\* api/v1/routes.py, get_plans
ApiGetPlans ==
    /\ last = Idle
    /\ \E user_name \in UserNames :
          /\ credentials' = user_name
          /\ IF get_current_user(user_name) = {} THEN Unauthorized
             ELSE PlansOf(CurrentUserPk(user_name), 1, 2)

\* api/v1/routes.py, plan_summary
ApiPlanSummary ==
    /\ last = Idle
    /\ \E user_name \in UserNames :
          /\ credentials' = user_name
          /\ IF get_current_user(user_name) = {} THEN Unauthorized
             ELSE PlanSummary(CurrentUserPk(user_name))

\* SpecApi: users register and call every route of the API
InitApi ==
    /\ recipes = {} /\ ingredients = {} /\ recipe_ingredients = {}
    /\ users = {} /\ timings = {} /\ planned_days = {}
    /\ last = Idle
    /\ data = <<>> /\ parsed = NotParsed
    /\ sessions = <<>>
    /\ credentials = ""

NextApi ==
    \/ CreateUser /\ UNCHANGED credentials
    \/ ApiReadUsersMe
    \/ ApiCreateRecipe
    \/ ApiUpdateRecipe
    \/ ApiGetRecipes
    \/ ApiGetRecipeByKey
    \/ ApiGetRecipe
    \/ ApiGetRecipeLike
    \/ ApiCreateTimings
    \/ ApiUpdateTimings
    \/ ApiGetTimings
    \/ ApiUpdatePlannedDay
    \/ ApiGetPlans
    \/ ApiPlanSummary
    \/ EndRequest

SpecApi == InitApi /\ [][NextApi]_vars

\* C17: a registration under a user name that is registered raises
\* UserAlreadyExistsError and leaves the users as they were; any other
\* registration adds one user of that name; user names stay unique.
C17_UserNamesUnique ==
    [][/\ \A u, v \in users' : u.user_name = v.user_name => u = v
       /\ last'.op = "create_user" =>
            IF \E u \in users : u.user_name = last'.user_name
            THEN last'.result = "UserAlreadyExistsError" /\ users' = users
            ELSE /\ last'.result = "ok"
                 /\ \E u \in users' \ users :
                        u.user_name = last'.user_name /\ users' = users \cup {u}]_vars

\* C17 witness: with two users registered, a registration under the name of
\* one of them was refused
C17_Witness ==
    /\ last.op = "create_user" /\ last.result = "UserAlreadyExistsError"
    /\ Cardinality(users) = 2
    /\ \E u \in users : u.user_name = last.user_name

\* C19: a request to a route that requires the current user, made under a
\* user name that is not registered, is refused as unauthorized and changes no
\* table.
C19_UnregisteredUnauthorized ==
    [][(credentials' # "" /\ \A u \in users : u.user_name # credentials') =>
          /\ last'.result = "401"
          /\ users' = users /\ timings' = timings /\ planned_days' = planned_days
          /\ TablesUnchanged]_vars

\* C19 witness: a request under an unregistered name was refused while a
\* registered user owns a recipe, timings and a plan
C19_Witness ==
    /\ last.op = "unauthorized" /\ last.result = "401"
    /\ \A u \in users : u.user_name # credentials
    /\ recipes # {} /\ timings # {} /\ planned_days # {}

\* C21: the list get_all returns holds recipes of the caller only, each once,
\* in the strict order of their names; with has_ingredients it holds exactly
\* the caller's recipes that have an association, without it all of the
\* caller's recipes.
C21_GetAllOrderedAndFiltered ==
    [][last'.op = "get_all" =>
        LET list == last'.list
            mine == {r \in recipes : r.user_pk = last'.user_pk}
        IN /\ \A i, j \in 1..Len(list) :
                  i < j => TextBefore(Letters[list[i].name], Letters[list[j].name])
           /\ {list[i] : i \in 1..Len(list)} =
                  IF last'.has_ingredients
                  THEN {r \in mine : \E a \in recipe_ingredients : a.recipe_pk = r.pk}
                  ELSE mine]_vars

\* C21 witness: a list of two recipes was returned whose order by name is not
\* their order by key, one of them without ingredients
C21_Witness ==
    /\ last.op = "get_all" /\ ~last.has_ingredients
    /\ Len(last.list) = 2
    /\ last.list[1].pk > last.list[2].pk
    /\ \E i \in 1..2 : AssocsOf(recipe_ingredients, last.list[i].pk) = {}

\* ---------------------------------------------------------------------------
\* The web forms (web/new.py, web/index.py)

MaxFormLines == 2

\* ingredient lines a form submits: "a" has no quantity, "a1" no unit, "a.a" a
\* quantity that is not a number, the others are well formed
FormLines == {<<"a">>, <<"a", "1">>, <<"a", ".", "a">>, <<"a", "1", "a">>, <<"a", " ", "2", "a">>}

FormIngredients == UNION {[1..n -> FormLines] : n \in 1..MaxFormLines}

ingredients_valid_FirstOnly(lines) ==
    model_validate(lines[1]).result = "ok"

\* validation of the field ingredients: list[CreateIngredientRequest], every
\* item is validated and one failing item fails the request
ingredients_valid(lines) ==
    \A i \in 1..Len(lines) : model_validate(lines[i]).result = "ok"

\* POST /new_recipe: the form is validated as a CreateRecipeRequest, then
\* repo.create(recipe_data) is called without its required argument user_pk,
\* which raises TypeError before the repository touches the session
WebNewRecipe ==
    /\ last = Idle
    /\ \E name \in RecipeNames, instructions \in Instructions, lines \in FormIngredients :
           last' = [op |-> "new_recipe", pk |-> 0, name |-> name,
                    instructions |-> instructions, lines |-> lines,
                    result |-> IF /\ ingredients_valid(lines)
                                  /\ both_or_neither_ingredients_and_instructions(lines, instructions)
                               THEN "TypeError" ELSE "ValidationError"]
    /\ UNCHANGED <<recipes, ingredients, recipe_ingredients, users, timings,
                   planned_days, parser_vars, sessions, credentials>>

\* POST /update_recipe/{pk}: the form is validated as an UpdateRecipeRequest,
\* then repo.update(recipe_data) is called without user_pk (TypeError)
WebUpdateRecipe ==
    /\ last = Idle
    /\ \E pk \in RecipePks, name \in RecipeNames, instructions \in Instructions,
          lines \in FormIngredients :
           last' = [op |-> "update_recipe", pk |-> pk, name |-> name,
                    instructions |-> instructions, lines |-> lines,
                    result |-> IF ingredients_valid(lines)
                               THEN "TypeError" ELSE "ValidationError"]
    /\ UNCHANGED <<recipes, ingredients, recipe_ingredients, users, timings,
                   planned_days, parser_vars, sessions, credentials>>

\* SpecWeb: recipes are created through the API and the forms are submitted
NextWeb ==
    \/ CreateRecipe(UserPks, Instructions, OwnerLists)
    \/ WebNewRecipe
    \/ WebUpdateRecipe
    \/ EndRequest

SpecWeb == Init /\ [][NextWeb]_vars

\* C22: a web form create or update with an ingredient line that fails to parse
\* is answered with a validation failure and changes no recipe, no ingredient
\* and no association, however many of its other lines are well formed
C22_FormAllOrNothing ==
    [][(/\ last = Idle
        /\ last'.op \in {"new_recipe", "update_recipe"}
        /\ \E i \in 1..Len(last'.lines) :
               model_validate(last'.lines[i]).result = "ValidationError")
       => /\ last'.result = "ValidationError"
          /\ UNCHANGED <<recipes, ingredients, recipe_ingredients>>]_vars

\* an update form for a stored recipe whose first line is well formed and whose
\* second line is not was answered with a validation failure
C22_Witness ==
    /\ last.op = "update_recipe"
    /\ last.result = "ValidationError"
    /\ \E r \in recipes : r.pk = last.pk /\ AssocsOf(recipe_ingredients, r.pk) # {}
    /\ Len(last.lines) = 2
    /\ model_validate(last.lines[1]).result = "ok"
    /\ model_validate(last.lines[2]).result = "ValidationError"

\* ---------------------------------------------------------------------------
\* Validation of timings requests (schemas.py, RecipeStep)

\* the steps a client can send: the offset is any integer
StepData == {[description |-> d, offset |-> o] : d \in {"Roast"}, o \in {-10, 0, 10}}

StepsData == UNION {[1..n -> StepData] : n \in 0..MaxSteps}

RecipeStepValid_Any(st) == TRUE

\* offset: int = Field(le=0)
RecipeStepValid(st) == st.offset <= 0

\* TimingSteps is a list of RecipeStep: every step is validated
TimingStepsValid(steps) == \A i \in 1..Len(steps) : RecipeStepValid(steps[i])

\* a request is answered with a validation failure and nothing is written
TimingsRejected(op, user_pk, finish_time, steps, result) ==
    /\ last' = [op |-> op, user_pk |-> user_pk, finish_time |-> finish_time,
                steps |-> steps, result |-> result]
    /\ UNCHANGED <<recipes, ingredients, recipe_ingredients, users, timings,
                   planned_days, parser_vars, sessions>>

\* POST /api/v1/timings: the body is validated as a TimingsCreate (422 when it
\* is not one) before create_timings runs
PostTimings ==
    /\ last = Idle
    /\ \E u \in UserPks, ft \in FinishTimes, steps \in StepsData :
           IF TimingStepsValid(steps) THEN TimingsCreate(u, ft, steps)
           ELSE TimingsRejected("create_timings", u, ft, steps, "422")
    /\ UNCHANGED credentials

\* PATCH /api/v1/timings
PatchTimings ==
    /\ last = Idle
    /\ \E u \in UserPks, ft \in FinishTimes, steps \in StepsData :
           IF TimingStepsValid(steps) THEN TimingsUpdate(u, ft, steps)
           ELSE TimingsRejected("update_timings", u, ft, steps, "422")
    /\ UNCHANGED credentials

\* PATCH /timings (web/timings.py): TimingSteps.model_validate_json and
\* TimingsCreate.model_validate, then repo.update(timings_data) is called
\* without its required argument user_pk (TypeError)
WebUpdateTimings ==
    /\ last = Idle
    /\ \E ft \in FinishTimes, steps \in StepsData :
           TimingsRejected("update_timings_form", 0, ft, steps,
                           IF TimingStepsValid(steps) THEN "TypeError"
                           ELSE "ValidationError")
    /\ UNCHANGED credentials

\* SpecTimingsInput: timings requests with unvalidated steps
NextTimingsInput ==
    \/ PostTimings
    \/ PatchTimings
    \/ WebUpdateTimings
    \/ EndRequest

SpecTimingsInput == Init /\ [][NextTimingsInput]_vars

\* the stored text is the JSON of a list of steps whose offsets are all <= 0
NonPositiveOffsetsStored(t) ==
    \E steps \in StepsData :
        /\ t.steps = model_dump_json(steps)
        /\ \A i \in 1..Len(steps) : steps[i].offset <= 0

\* C23: every step of every stored timings record has an offset <= 0, and a
\* timings create or update that contains a step with a positive offset is
\* rejected and leaves the stored timings unchanged
C23_OffsetsNeverPositive ==
    [][/\ \A t \in timings' : NonPositiveOffsetsStored(t)
       /\ (/\ last = Idle
           /\ last'.op \in {"create_timings", "update_timings", "update_timings_form"}
           /\ \E i \in 1..Len(last'.steps) : last'.steps[i].offset > 0)
          => /\ last'.result \in {"422", "ValidationError"}
             /\ timings' = timings]_vars

\* an update with a positive offset was rejected for a user whose stored
\* timings hold a step
C23_Witness ==
    /\ last.op = "update_timings"
    /\ last.result = "422"
    /\ \E i \in 1..Len(last.steps) : last.steps[i].offset > 0
    /\ \E t \in timings :
           /\ t.user_pk = last.user_pk
           /\ t.steps = model_dump_json(<<[description |-> "Roast", offset |-> -10]>>)

\* C24: after a create that succeeds the new recipe is owned by the caller and
\* has the requested name and instructions; its associations correspond one to
\* one to the requested entries, each with the entry's quantity and unit and
\* bound to the identity of the entry's name; get by key and get by name by the
\* same user then return exactly this recipe
C24_CreatePostcondition ==
    [][(last = Idle /\ last'.op = "create" /\ last'.result = "ok") =>
         \E r \in recipes' \ recipes :
             /\ recipes' = recipes \cup {r}
             /\ r.user_pk = last'.user_pk
             /\ r.name = last'.name
             /\ r.instructions = last'.instructions
             /\ \E f \in [1..Len(last'.ingredients) -> AssocsOf(recipe_ingredients', r.pk)] :
                    /\ \A a \in AssocsOf(recipe_ingredients', r.pk) :
                           \E i \in 1..Len(last'.ingredients) : f[i] = a
                    /\ \A i, j \in 1..Len(last'.ingredients) : f[i] = f[j] => i = j
                    /\ \A i \in 1..Len(last'.ingredients) :
                           /\ f[i].quantity = last'.ingredients[i].quantity
                           /\ f[i].unit = last'.ingredients[i].unit
                           /\ NameOf(ingredients', f[i]) = last'.ingredients[i].name
             /\ AssocsOf(recipe_ingredients', r.pk) = {} => last'.ingredients = <<>>
             /\ \E u \in {last'.user_pk}, n \in {last'.name} :
                    /\ get(r.pk, u)' = {r}
                    /\ get_by_name(n, u)' = {r}]_vars

\* a create of two entries succeeded when another recipe was stored already
C24_Witness ==
    /\ last.op = "create"
    /\ last.result = "ok"
    /\ Len(last.ingredients) = 2
    /\ Cardinality(recipes) = 2
    /\ \E r \in get_by_name(last.name, last.user_pk) :
           Cardinality(AssocsOf(recipe_ingredients, r.pk)) = 2

\* ---------------------------------------------------------------------------
\* SpecFrame: two users, recipes that share identities with different amounts
FrameLists == IngredientLists(CreateIngredientRequest(IngredientNames, Amounts), MaxOwnerIngredients)

NextFrame ==
    \/ CreateRecipe(UserPks, {"Test instructions"}, FrameLists)
    \/ UpdateRecipe(UserPks, {"Test instructions"}, FrameLists)
    \/ EndRequest

SpecFrame == Init /\ [][NextFrame]_vars

\* the ingredient lines of a recipe as a reader sees them: name, quantity, unit
LinesOf(ingT, assocT, pk) ==
    {[pk |-> a.pk, name |-> NameOf(ingT, a), ingredient_pk |-> a.ingredient_pk,
      quantity |-> a.quantity, unit |-> a.unit] : a \in AssocsOf(assocT, pk)}

\* C25: an update of one recipe leaves every other recipe, of any user, as it
\* was: its row, its associations and their identities, quantities and units,
\* also when it shares an identity with the updated recipe
C25_UpdateLeavesOtherRecipes ==
    [][(last = Idle /\ last'.op = "update") =>
         \A r \in recipes : r.pk # last'.pk =>
             /\ r \in recipes'
             /\ LinesOf(ingredients', recipe_ingredients', r.pk)
                    = LinesOf(ingredients, recipe_ingredients, r.pk)]_vars

\* an update requested an identity of the updated recipe that a recipe of
\* the other user holds too, with another amount
C25_Witness ==
    /\ last.op = "update"
    /\ last.result = "ok"
    /\ \E r, o \in recipes :
           /\ r.pk = last.pk
           /\ o.user_pk # r.user_pk
           /\ \E b \in AssocsOf(recipe_ingredients, o.pk),
                 a \in AssocsOf(recipe_ingredients, r.pk) :
                  /\ a.ingredient_pk = b.ingredient_pk
                  /\ <<a.quantity, a.unit>> # <<b.quantity, b.unit>>
                  /\ get_ingredient(last.ingredients, NameOf(ingredients, a)) # NoIngredient

\* C26 (as claimed): after an update whose requested list repeats a name, the
\* recipe holds exactly one association for that name and it carries the
\* quantity and unit of the first entry of that name.
C26_RepeatedNameFirstOccurrence ==
    [][(last = Idle /\ last'.op = "update" /\ last'.result = "ok") =>
         \A i, j \in 1..Len(last'.ingredients) :
             (i < j /\ last'.ingredients[i].name = last'.ingredients[j].name) =>
                 \E a \in AssocsOf(recipe_ingredients', last'.pk) :
                     /\ NameOf(ingredients', a) = last'.ingredients[i].name
                     /\ a.quantity = last'.ingredients[i].quantity
                     /\ a.unit = last'.ingredients[i].unit
                     /\ \A b \in AssocsOf(recipe_ingredients', last'.pk) :
                            NameOf(ingredients', b) = last'.ingredients[i].name => b = a]_vars

\* C27 (as claimed): every stored planned day references a recipe that exists
\* and is owned by the user of the planned day.
C27_PlannedRecipeOwned ==
    \A p \in planned_days :
        \E r \in recipes : r.pk = p.recipe_pk /\ r.user_pk = p.user_pk

\* C28 (as claimed): when another user has a plan for the day and the caller
\* has none, planning that day succeeds, adds the caller's own plan record and
\* leaves the other user's plan as it was.
C28_PlansIndependentAcrossUsers ==
    [][(/\ last = Idle
        /\ last'.op = "update_planned_day"
        /\ PlannedOn(last'.day, last'.user_pk) = {}
        /\ \E p \in planned_days : p.day = last'.day /\ p.user_pk # last'.user_pk)
       => /\ last'.result = "ok"
          /\ \E p \in planned_days' \ planned_days :
                 /\ planned_days' = planned_days \cup {p}
                 /\ p.day = last'.day
                 /\ p.user_pk = last'.user_pk
                 /\ p.recipe_pk = last'.recipe_pk]_vars

\* ---------------------------------------------------------------------------
\* Concurrent timings requests: each request has its own session and
\* transaction (get_db) on the one SQLite database

\* a session whose timings request has not arrived yet
NewTimingsSession == [pc |-> "request", op |-> "none", user_pk |-> 0, finish_time |-> "",
                      steps |-> <<>>, found |-> 0, written |-> {}, result |-> "none"]

\* a timings request arrives and the repository looks the user's record up in
\* the committed rows: found is the key of the record, 0 when there is none
LookupTimings(s) ==
    /\ sessions[s].pc = "request"
    /\ \E op \in {"create_timings", "update_timings"}, u \in UserPks,
          ft \in FinishTimes, steps \in TimingSteps :
         \E asked \in {[NewTimingsSession EXCEPT !.op = op, !.user_pk = u,
                                                 !.finish_time = ft, !.steps = steps]} :
           sessions' = [sessions EXCEPT ![s] =
               IF ExistingTimings(u) = {} THEN [asked EXCEPT !.pc = "write"]
               ELSE IF op = "create_timings"
               THEN [asked EXCEPT !.pc = "done", !.found = First(ExistingTimings(u)).pk,
                                  !.result = "TimingAlreadyExistsError"]
               ELSE [asked EXCEPT !.pc = "write", !.found = First(ExistingTimings(u)).pk]]
    /\ UNCHANGED <<recipes, ingredients, recipe_ingredients, last,
                   users, timings, planned_days, parser_vars, credentials>>

\* session.flush() of create and update: under the write lock the record is
\* inserted when the lookup found none, else the found record is overwritten
FlushTimings(s) ==
    LET ses == sessions[s]
        row == [pk |-> NextPk(timings), finish_time |-> ses.finish_time,
                steps |-> model_dump_json(ses.steps), user_pk |-> ses.user_pk]
    IN /\ ses.pc = "write"
       /\ ~WriteLocked(s)
       /\ sessions' = [sessions EXCEPT ![s].pc = "commit", ![s].written =
              IF ses.found = 0 THEN timings \cup {row}
              ELSE {IF t.pk = ses.found
                    THEN [t EXCEPT !.finish_time = ses.finish_time,
                                   !.steps = model_dump_json(ses.steps)]
                    ELSE t : t \in timings}]
       /\ UNCHANGED <<recipes, ingredients, recipe_ingredients, last,
                      users, timings, planned_days, parser_vars, credentials>>

\* session.flush() while another session holds the write lock: the flush
\* waits (this step is not taken) or gives up with "database is locked"
FlushTimingsBusy(s) ==
    /\ sessions[s].pc = "write"
    /\ WriteLocked(s)
    /\ sessions' = [sessions EXCEPT ![s].pc = "done", ![s].result = "OperationalError"]
    /\ UNCHANGED <<recipes, ingredients, recipe_ingredients, last,
                   users, timings, planned_days, parser_vars, credentials>>

\* get_db leaves session.begin(): the transaction commits
CommitTimings(s) ==
    /\ sessions[s].pc = "commit"
    /\ timings' = sessions[s].written
    /\ sessions' = [sessions EXCEPT ![s].pc = "done", ![s].result = "ok"]
    /\ UNCHANGED <<recipes, ingredients, recipe_ingredients, last,
                   users, planned_days, parser_vars, credentials>>

\* SpecConcurrentTimings: two timings requests served at the same time
InitConcurrentTimings ==
    /\ recipes = {} /\ ingredients = {} /\ recipe_ingredients = {}
    /\ users = {[pk |-> u, user_name |-> UserNameOf[u]] : u \in UserPks}
    /\ timings = {} /\ planned_days = {}
    /\ last = Idle
    /\ data = <<>> /\ parsed = NotParsed
    /\ sessions = [s \in Requests |-> NewTimingsSession]
    /\ credentials = ""

NextConcurrentTimings ==
    \E s \in Requests :
        \/ LookupTimings(s)
        \/ FlushTimings(s)
        \/ FlushTimingsBusy(s)
        \/ CommitTimings(s)

SpecConcurrentTimings == InitConcurrentTimings /\ [][NextConcurrentTimings]_vars

\* C29 (as claimed): under every interleaving of two concurrent timings
\* requests of a user who has no record, the user ends with at most one
\* timings record.
C29_ConcurrentTimingsOneRecord ==
    \A u \in UserPks : Cardinality(ExistingTimings(u)) <= 1

\* ---------------------------------------------------------------------------
\* The edit form: an ingredient is rendered with IngredientResponse.__str__
\* and the text is parsed again when the form is submitted

\* a quantity <<m, k>> stands for the number m / 10^k
RECURSIVE Pow10(_)
Pow10(k) == IF k = 0 THEN 1 ELSE 10 * Pow10(k - 1)

\* float equality of two quantities
SameNumber(a, b) == a[1] * Pow10(b[2]) = b[1] * Pow10(a[2])

\* the shortest decimal of a quantity: no trailing zero after the point
RECURSIVE Shortest(_)
Shortest(q) ==
    IF q[1] = 0 THEN <<0, 0>>
    ELSE IF q[2] > 0 /\ q[1] % 10 = 0 THEN Shortest(<<q[1] \div 10, q[2] - 1>>)
    ELSE q

\* the digits of a natural number
RECURSIVE DigitsOf(_)
DigitsOf(n) ==
    IF n < 10 THEN <<DigitChars[n + 1]>>
    ELSE Append(DigitsOf(n \div 10), DigitChars[(n % 10) + 1])

Zeros(n) == [i \in 1..n |-> "0"]

\* (variant) a float rendered without an exponent, whatever its size
float_repr_Fixed(quantity) ==
    LET q == Shortest(quantity)
        digits == DigitsOf(q[1])
        decpt == Len(digits) - q[2]
    IN IF q[2] = 0 THEN digits \o <<".", "0">>
       ELSE IF decpt > 0
       THEN SubSeq(digits, 1, decpt) \o <<".">> \o SubSeq(digits, decpt + 1, Len(digits))
       ELSE <<"0", ".">> \o Zeros(-decpt) \o digits

\* the text of a float in an f-string (float.__repr__): the shortest digits
\* that give the number back; with the decimal point before position -3 of
\* the digits it is written with an exponent of two digits at least
float_repr(quantity) ==
    LET q == Shortest(quantity)
        digits == DigitsOf(q[1])
        decpt == Len(digits) - q[2]
        exponent == DigitsOf(1 - decpt)
    IN IF q[1] # 0 /\ decpt <= -4
       THEN <<Head(digits)>>
            \o (IF Len(digits) > 1 THEN <<".">> \o Tail(digits) ELSE <<>>)
            \o <<"e", "-">>
            \o (IF Len(exponent) < 2 THEN <<"0">> ELSE <<>>) \o exponent
       ELSE float_repr_Fixed(quantity)

\* IngredientResponse.__str__: f"{self.name} {self.quantity} {self.unit}"
IngredientStr(ingredient) ==
    ingredient.name \o <<" ">> \o float_repr(ingredient.quantity) \o <<" ">> \o ingredient.unit

\* names and units of stored ingredients: letters and spaces, no space at
\* either end
StoredTexts == {<<"a">>, <<"a", "a">>, <<"a", " ", "a">>, <<"e">>}

\* quantities of stored ingredients: 0, 1, 2, 12, 0.5, 1.2, 2.5, 0.0001,
\* 0.00012, 0.00001, 0.000012
StoredQuantities == {<<0, 0>>, <<1, 0>>, <<2, 0>>, <<12, 0>>, <<5, 1>>, <<12, 1>>, <<25, 1>>,
                     <<1, 4>>, <<12, 5>>, <<1, 5>>, <<12, 6>>}

\* GET /recipe/{pk}/edit: ingredient_details puts str(ingredient) in the form
EditIngredient ==
    /\ data = <<>>
    /\ parsed.result = "ok"
    /\ data' = IngredientStr(parsed)
    /\ UNCHANGED <<recipes, ingredients, recipe_ingredients, last,
                   users, timings, planned_days, parsed, sessions, credentials>>

\* POST /update_recipe/{pk}: the submitted text is validated as an ingredient
SubmitIngredient ==
    /\ data # <<>>
    /\ parsed' = model_validate(data)
    /\ data' = <<>>
    /\ UNCHANGED <<recipes, ingredients, recipe_ingredients, last,
                   users, timings, planned_days, sessions, credentials>>

\* SpecRoundTrip: every stored ingredient is rendered and submitted back
InitRoundTrip ==
    /\ recipes = {} /\ ingredients = {} /\ recipe_ingredients = {}
    /\ users = {} /\ timings = {} /\ planned_days = {}
    /\ last = Idle
    /\ sessions = <<>>
    /\ credentials = ""
    /\ data = <<>>
    /\ \E n \in StoredTexts, q \in StoredQuantities, u \in StoredTexts :
           parsed = [result |-> "ok", name |-> n, quantity |-> q, unit |-> u]

NextRoundTrip ==
    \/ EditIngredient
    \/ SubmitIngredient

SpecRoundTrip == InitRoundTrip /\ [][NextRoundTrip]_vars

\* C30 (as claimed): parsing the text that __str__ renders for an ingredient
\* yields the same name, quantity and unit.
C30_RenderParseRoundTrip ==
    [][(data # <<>> /\ data' = <<>>) =>
         /\ parsed'.result = "ok"
         /\ parsed'.name = parsed.name
         /\ parsed'.unit = parsed.unit
         /\ SameNumber(parsed'.quantity, parsed.quantity)]_vars

====
